---- MODULE Spec2Model ----
(***************************************************************************)
(* The WASM kernel shell of ecmaos: the host boundary functions of         *)
(* kernel.cpp, the dispatcher of execute.cpp and the four command handlers *)
(* (ls, cat, echo, rm), over a model of the Emscripten virtual filesystem. *)
(*                                                                         *)
(* A C or C++ string is a sequence of one-character strings; the null byte *)
(* is the character NUL.  A log message is a record of its severity and    *)
(* its text; a fixed message of the code is the one-element sequence that  *)
(* holds the literal.  Positions in strings are 0-based and of type size_t *)
(* (32 bits on wasm32), as in the code: a size_t value is written as the   *)
(* signed 32-bit integer of the same bit pattern, so npos (all bits set)   *)
(* is -1, npos + 1 wraps to 0 and comparisons are the unsigned ones.       *)
(***************************************************************************)
EXTENDS Integers, Sequences, FiniteSets, TLC

VARIABLES
    fs,       \* the root directory: its files, in creation order
    heap,     \* addresses of the malloc'ed blocks that are live
    owned,    \* addresses handed to the host and not yet released by it
    dirs,     \* directory handles that are open
    call,     \* the boundary call that ran last, with its arguments
    ret,      \* how that call ended: a returned value or a thrown exception
    log,      \* the messages that call sent to the console
    invoked,  \* the command handlers that call invoked, with their arguments
    hret,     \* how the invoked handler ended
    out,      \* the bytes that call stored in the buffer it returned
    acct,     \* that call's count of malloc, free, opendir and closedir
    pre       \* the root directory as it was when that call started

vars == <<fs, heap, owned, dirs, call, ret, log, invoked, hret, out, acct, pre>>

----------------------------------------------------------------------------
(* Bounds of the model. *)

\* longest argument string of a command line
MaxArgLen == 4
\* number of blocks the allocator can hold before malloc returns null
MaxBuffers == 1

----------------------------------------------------------------------------
(* Characters and strings. *)

NUL == "NUL"
SP == " "
TAB == "\t"
NL == "\n"
GT == ">"
SLASH == "/"
DOT == "."

\* std::string::npos, static_cast<size_t>(-1)
npos == 0 - 1

\* a < b and a > b on size_t
ULess(a, b) == IF (a < 0) = (b < 0) THEN a < b ELSE b < 0
UGreater(a, b) == ULess(b, a)

\* std::min on size_t
UMin(a, b) == IF ULess(a, b) THEN a ELSE b

\* std::string::find(char): the 0-based position of the first c, or npos
find(s, c) ==
    IF \E i \in 1..Len(s) : s[i] = c
    THEN (CHOOSE i \in 1..Len(s) : s[i] = c /\ \A j \in 1..(i - 1) : s[j] # c) - 1
    ELSE npos

\* std::string::find_first_not_of(set)
find_first_not_of(s, set) ==
    IF \E i \in 1..Len(s) : s[i] \notin set
    THEN (CHOOSE i \in 1..Len(s) :
              s[i] \notin set /\ \A j \in 1..(i - 1) : s[j] \in set) - 1
    ELSE npos

\* std::string::find_last_not_of(set)
find_last_not_of(s, set) ==
    IF \E i \in 1..Len(s) : s[i] \notin set
    THEN (CHOOSE i \in 1..Len(s) :
              s[i] \notin set /\ \A j \in (i + 1)..Len(s) : s[j] \in set) - 1
    ELSE npos

\* std::string::substr(pos, n) throws std::out_of_range when pos > size()
substr_throws(s, pos) == UGreater(pos, Len(s))

\* std::string::substr(pos, n) for pos <= size()
substr(s, pos, n) == SubSeq(s, pos + 1, pos + UMin(n, Len(s) - pos))

\* the C string that starts at s: the bytes before the first null
CStr(s) == substr(s, 0, find(s, NUL))

\* strlen
strlen(s) == Len(CStr(s))

\* the characters " \t" that echo trims
TrimSet == {SP, TAB}

----------------------------------------------------------------------------
(* Values a call ends with, and console messages. *)

Returned(v) == [tag |-> "return", val |-> v]
Thrown == [tag |-> "out_of_range", val |-> 0]
NoCall == [tag |-> "none", val |-> 0]

Info(text) == [level |-> "info", text |-> text]
Error(text) == [level |-> "error", text |-> text]
Lit(s) == <<s>>

----------------------------------------------------------------------------
(* The filesystem the code runs on: one root directory "/" that is also    *)
(* the working directory, holding regular files.  The boundary has no call *)
(* that makes a directory, so the tree stays one level deep.               *)

RootDir == [kind |-> "dir", name |-> <<>>]
BadPath == [kind |-> "bad", name |-> <<>>]

\* the components of a path between its slashes, empty ones dropped
RECURSIVE Components(_)
Components(p) ==
    IF p = <<>> THEN <<>>
    ELSE LET k == find(p, SLASH) IN
         IF k = npos THEN <<p>>
         ELSE (IF k = 0 THEN <<>> ELSE <<substr(p, 0, k)>>)
              \o Components(substr(p, k + 1, npos))

HasFile(fsys, name) == \E i \in 1..Len(fsys) : fsys[i].name = name

FileData(fsys, name) ==
    fsys[CHOOSE i \in 1..Len(fsys) : fsys[i].name = name].data

\* path lookup from the root: "." and ".." of the root are the root, a name
\* is a file of the root or a name free in it, and nothing lies below a file
RECURSIVE Walk(_, _)
Walk(comps, cur) ==
    IF comps = <<>> THEN cur
    ELSE IF cur.kind # "dir" THEN BadPath
    ELSE IF Head(comps) \in {<<DOT>>, <<DOT, DOT>>} THEN Walk(Tail(comps), RootDir)
    ELSE Walk(Tail(comps), [kind |-> "entry", name |-> Head(comps)])

Resolve(path, fsys) ==
    IF path = <<>> THEN BadPath
    ELSE LET w == Walk(Components(path), RootDir) IN
         IF w.kind # "entry" THEN w
         ELSE IF path[Len(path)] = SLASH THEN BadPath
         ELSE IF HasFile(fsys, w.name) THEN [kind |-> "file", name |-> w.name]
         ELSE [kind |-> "none", name |-> w.name]

\* stat(path, &st) == 0
stat_ok(path, fsys) == Resolve(path, fsys).kind \in {"dir", "file"}

\* S_ISDIR(st.st_mode) after a successful stat
S_ISDIR(path, fsys) == Resolve(path, fsys).kind = "dir"

\* opendir(path) != nullptr
opendir_ok(path, fsys) == Resolve(path, fsys).kind = "dir"

\* the names readdir yields, in the order it yields them
readdir(fsys) == <<<<DOT>>, <<DOT, DOT>>>> \o [i \in 1..Len(fsys) |-> fsys[i].name]

\* std::ofstream(path).is_open(): an existing file or a free name of the root
ofstream_open(path, fsys) == Resolve(path, fsys).kind \in {"file", "none"}

\* the filesystem once an ofstream opened on path has written data and closed:
\* an existing file is truncated in place, a new one is added after the others
Store(fsys, path, data) ==
    LET name == Resolve(path, fsys).name IN
    IF HasFile(fsys, name)
    THEN [i \in 1..Len(fsys) |->
             IF fsys[i].name = name THEN [name |-> name, data |-> data] ELSE fsys[i]]
    ELSE Append(fsys, [name |-> name, data |-> data])

\* remove(path) == 0: only a regular file can be removed (the root cannot)
remove_ok(path, fsys) == Resolve(path, fsys).kind = "file"

IsOther(e, name) == e.name # name

Unlink(fsys, path) ==
    LET name == Resolve(path, fsys).name IN
    SelectSeq(fsys, LAMBDA e : IsOther(e, name))

\* What std::ifstream(path, binary | ate) meets when path is a directory is
\* left to the filesystem backend: the open is refused, or it succeeds with
\* size 0, or it succeeds and the read fails.
DirReads == {"refused", "empty", "unreadable"}

\* an ifstream opened on path: whether it is open, the size tellg reports,
\* whether read(buffer, size) succeeds, and the bytes read
ifstream(path, fsys, d) ==
    LET r == Resolve(path, fsys) IN
    IF r.kind = "file"
    THEN LET data == FileData(fsys, r.name) IN
         [open |-> TRUE, size |-> Len(data), readok |-> TRUE, data |-> data]
    ELSE IF r.kind = "dir" /\ d = "empty"
    THEN [open |-> TRUE, size |-> 0, readok |-> TRUE, data |-> <<>>]
    ELSE IF r.kind = "dir" /\ d = "unreadable"
    THEN [open |-> TRUE, size |-> 1, readok |-> FALSE, data |-> <<>>]
    ELSE [open |-> FALSE, size |-> 0, readok |-> FALSE, data |-> <<>>]

\* the outcomes open to an ifstream on path: the backend's choice matters
\* only when path is a directory
ifstream_outcomes(path, fsys) ==
    IF Resolve(path, fsys).kind = "dir" THEN DirReads ELSE {"refused"}

\* opendir: the new handle is the lowest one not open
opendir(ds) == CHOOSE h \in 1..(Cardinality(ds) + 1) : h \notin ds

\* malloc: the lowest free address, or 0 (null) when the allocator is full
malloc(hp) ==
    IF Cardinality(hp) < MaxBuffers
    THEN CHOOSE b \in 1..MaxBuffers : b \notin hp /\ \A c \in 1..(b - 1) : c \in hp
    ELSE 0

\* free: the block is live no more
free(hp, b) == hp \ {b}

\* closedir: the handle is open no more
closedir(ds, h) == ds \ {h}

NoAcct == [mallocs |-> 0, frees |-> 0, opens |-> 0, closes |-> 0]

----------------------------------------------------------------------------
(* The command handlers.  A handler's outcome is how it ended (ret), what  *)
(* it logged, the filesystem and the open directory handles it leaves, and *)
(* its count of opendir and closedir calls.                                *)

Outcome(r, l, fsys, ds, o, c) ==
    [ret |-> r, log |-> l, fs |-> fsys, dirs |-> ds, opens |-> o, closes |-> c]

\* the path an entry of the listed directory is looked up by
full_path(path, name) ==
    (IF path[Len(path)] # SLASH THEN Append(path, SLASH) ELSE path) \o name

\* the line ls logs for one entry
entry_line(path, name, fsys) ==
    IF stat_ok(full_path(path, name), fsys)
    THEN Info((IF S_ISDIR(full_path(path, name), fsys) THEN <<"d">> ELSE <<"-">>)
              \o <<SP>> \o name)
    ELSE Info(name)

ls(args, fsys, ds) ==
    LET path == IF args = <<>> THEN <<SLASH>> ELSE args
        head == <<Info(Lit("ls command executing")),
                  Info(Lit("Listing directory:")), Info(path)>>
    IN
    IF ~opendir_ok(path, fsys)
    THEN Outcome(Returned(-1),
                 head \o <<Error(Lit("Failed to open directory: ")), Error(path)>>,
                 fsys, ds, 0, 0)
    ELSE LET dir == opendir(ds)
             entries == readdir(fsys)
         IN Outcome(Returned(0),
                    head \o [i \in 1..Len(entries) |-> entry_line(path, entries[i], fsys)],
                    fsys, closedir(ds \cup {dir}, dir), 1, 1)

\* cat, were it to take a read of no bytes for a failed read
cat_nonempty(args, fsys, ds, d) ==
    IF args = <<>>
    THEN Outcome(Returned(-1), <<Error(Lit("Usage: cat <filename>"))>>, fsys, ds, 0, 0)
    ELSE LET file == ifstream(args, fsys, d) IN
         IF ~file.open
         THEN Outcome(Returned(-1), <<Error(Lit("Failed to open file"))>>, fsys, ds, 0, 0)
         ELSE IF ~file.readok \/ file.size = 0
         THEN Outcome(Returned(-1), <<Error(Lit("Failed to read file"))>>, fsys, ds, 0, 0)
         ELSE Outcome(Returned(0), <<Info(CStr(file.data))>>, fsys, ds, 0, 0)

cat(args, fsys, ds, d) ==
    IF args = <<>>
    THEN Outcome(Returned(-1), <<Error(Lit("Usage: cat <filename>"))>>, fsys, ds, 0, 0)
    ELSE LET file == ifstream(args, fsys, d) IN
         IF ~file.open
         THEN Outcome(Returned(-1), <<Error(Lit("Failed to open file"))>>, fsys, ds, 0, 0)
         ELSE IF ~file.readok
         THEN Outcome(Returned(-1), <<Error(Lit("Failed to read file"))>>, fsys, ds, 0, 0)
         ELSE Outcome(Returned(0), <<Info(CStr(file.data))>>, fsys, ds, 0, 0)

\* echo without a '>': the else branch, which logs the argument
echo_plain_trimmed(args, fsys, ds) ==
    Outcome(Returned(0),
            <<Info(substr(args, 0, find_last_not_of(args, TrimSet) + 1))>>, fsys, ds, 0, 0)

echo_plain(args, fsys, ds) == Outcome(Returned(0), <<Info(args)>>, fsys, ds, 0, 0)

\* the content echo writes: the text before the '>', right-trimmed
echo_content_untrimmed(args, gt_pos) == substr(args, 0, gt_pos)

echo_content(args, gt_pos) ==
    LET content == substr(args, 0, gt_pos) IN
    substr(content, 0, find_last_not_of(content, TrimSet) + 1)

\* echo with a '>' at gt_pos: the then branch, which writes the file
echo_redirect(args, gt_pos, fsys, ds) ==
    LET content == echo_content(args, gt_pos)
        filename0 == substr(args, gt_pos + 1, npos)
        first == find_first_not_of(filename0, TrimSet)
    IN
    IF substr_throws(filename0, first)
    THEN Outcome(Thrown, <<>>, fsys, ds, 0, 0)
    ELSE LET filename == substr(filename0, first, npos) IN
         IF ~ofstream_open(filename, fsys)
         THEN Outcome(Returned(-1),
                      <<Error(Lit("Failed to open file for writing"))>>, fsys, ds, 0, 0)
         ELSE Outcome(Returned(0), <<>>, Store(fsys, filename, content), ds, 0, 0)

echo(args, fsys, ds) ==
    LET gt_pos == find(args, GT) IN
    IF gt_pos # npos
    THEN echo_redirect(args, gt_pos, fsys, ds)
    ELSE echo_plain(args, fsys, ds)

\* rm, were it to report success when there is no file to remove
rm_force(args, fsys, ds) ==
    IF args = <<>>
    THEN Outcome(Returned(-1), <<Error(Lit("Usage: rm <filename>"))>>, fsys, ds, 0, 0)
    ELSE IF remove_ok(args, fsys)
    THEN Outcome(Returned(0), <<>>, Unlink(fsys, args), ds, 0, 0)
    ELSE Outcome(Returned(0), <<>>, fsys, ds, 0, 0)

rm(args, fsys, ds) ==
    IF args = <<>>
    THEN Outcome(Returned(-1), <<Error(Lit("Usage: rm <filename>"))>>, fsys, ds, 0, 0)
    ELSE IF remove_ok(args, fsys)
    THEN Outcome(Returned(0), <<>>, Unlink(fsys, args), ds, 0, 0)
    ELSE Outcome(Returned(-1), <<Error(Lit("Failed to delete file"))>>, fsys, ds, 0, 0)

----------------------------------------------------------------------------
(* The dispatcher. *)

\* the registry: command name -> handler
command_registry ==
    {[name |-> <<"l", "s">>, fn |-> "ls"],
     [name |-> <<"c", "a", "t">>, fn |-> "cat"],
     [name |-> <<"e", "c", "h", "o">>, fn |-> "echo"],
     [name |-> <<"r", "m">>, fn |-> "rm"]}

\* command_registry.find(cmd) != command_registry.end()
registered(cmd) == \E e \in command_registry : e.name = cmd

\* it->second
handler_of(cmd) == (CHOOSE e \in command_registry : e.name = cmd).fn

\* it->second(args)
invoke(fn, args, fsys, ds, d) ==
    CASE fn = "ls" -> ls(args, fsys, ds)
      [] fn = "cat" -> cat(args, fsys, ds, d)
      [] fn = "echo" -> echo(args, fsys, ds)
      [] fn = "rm" -> rm(args, fsys, ds)

\* the command token, were it to end at the first space or '>'
cmd_of_redirect(command) ==
    LET space_pos == find(command, SP)
        cmd == IF space_pos # npos THEN substr(command, 0, space_pos) ELSE command
        gt_pos == find(cmd, GT)
    IN IF gt_pos # npos THEN substr(cmd, 0, gt_pos) ELSE cmd

\* the command token: the line up to its first space
cmd_of(command) ==
    LET space_pos == find(command, SP) IN
    IF space_pos # npos THEN substr(command, 0, space_pos) ELSE command

\* the argument string: the line after its first space
args_of(command) ==
    LET space_pos == find(command, SP) IN
    IF space_pos # npos THEN substr(command, space_pos + 1, npos) ELSE <<>>

\* an outcome of the dispatcher: the handler's, with the handlers it invoked
\* and how the handler ended
Dispatched(o, inv, h) ==
    [ret |-> o.ret, log |-> o.log, fs |-> o.fs, dirs |-> o.dirs,
     opens |-> o.opens, closes |-> o.closes, invoked |-> inv, hret |-> h]

execute_command(command, fsys, ds, d) ==
    LET cmd == cmd_of(command)
        args == args_of(command)
    IN
    IF ~registered(cmd)
    THEN Dispatched(Outcome(Returned(-1), <<Error(Lit("Unknown command"))>>,
                            fsys, ds, 0, 0), <<>>, NoCall)
    ELSE LET h == invoke(handler_of(cmd), args, fsys, ds, d) IN
         Dispatched(h, <<[fn |-> handler_of(cmd), args |-> args]>>, h.ret)

\* the boundary function execute; isnull is a null command pointer
execute(command, isnull, fsys, ds, d) ==
    IF ~isnull /\ command # <<>>
    THEN execute_command(command, fsys, ds, d)
    ELSE Dispatched(Outcome(Returned(-1), <<Error(Lit("Empty or invalid command"))>>,
                            fsys, ds, 0, 0), <<>>, NoCall)

----------------------------------------------------------------------------
(* The host boundary functions of kernel.cpp.  The effect of a boundary    *)
(* call: how it ended, its log, the filesystem, the allocator's live       *)
(* blocks and the open directory handles it leaves, the bytes it stored in *)
(* the buffer it returns, its resource counts, and what it dispatched.     *)

Effect(r, l, fsys, hp, ds, o, a, inv, h) ==
    [ret |-> r, log |-> l, fs |-> fsys, heap |-> hp, dirs |-> ds, out |-> o,
     acct |-> a, invoked |-> inv, hret |-> h]

kernel_execute(command, isnull, fsys, hp, ds, d) ==
    LET e == execute(command, isnull, fsys, ds, d) IN
    Effect(e.ret, e.log, e.fs, hp, e.dirs, <<>>,
           [mallocs |-> 0, frees |-> 0, opens |-> e.opens, closes |-> e.closes],
           e.invoked, e.hret)

\* write_file, were it to open the file for appending
write_file_append(path, content, fsys, hp, ds) ==
    IF ~ofstream_open(path, fsys)
    THEN Effect(Returned(-1), <<Error(Lit("Failed to open file for writing"))>>,
                fsys, hp, ds, <<>>, NoAcct, <<>>, NoCall)
    ELSE Effect(Returned(0), <<Info(Lit("File written successfully"))>>,
                Store(fsys, path,
                      (IF Resolve(path, fsys).kind = "file"
                       THEN FileData(fsys, Resolve(path, fsys).name) ELSE <<>>)
                      \o substr(content, 0, strlen(content))),
                hp, ds, <<>>, NoAcct, <<>>, NoCall)

write_file(path, content, fsys, hp, ds) ==
    IF ~ofstream_open(path, fsys)
    THEN Effect(Returned(-1), <<Error(Lit("Failed to open file for writing"))>>,
                fsys, hp, ds, <<>>, NoAcct, <<>>, NoCall)
    ELSE Effect(Returned(0), <<Info(Lit("File written successfully"))>>,
                Store(fsys, path, substr(content, 0, strlen(content))),
                hp, ds, <<>>, NoAcct, <<>>, NoCall)

\* read_file, were it to return null on a failed read without the free
read_file_leak(path, fsys, hp, ds, d) ==
    LET file == ifstream(path, fsys, d)
        buffer == malloc(hp)
    IN
    IF ~file.open
    THEN Effect(Returned(0), <<Error(Lit("Failed to open file for reading"))>>,
                fsys, hp, ds, <<>>, NoAcct, <<>>, NoCall)
    ELSE IF buffer = 0
    THEN Effect(Returned(0), <<Error(Lit("Failed to allocate memory"))>>,
                fsys, hp, ds, <<>>, NoAcct, <<>>, NoCall)
    ELSE IF ~file.readok
    THEN Effect(Returned(0), <<Error(Lit("Failed to read file"))>>,
                fsys, hp \cup {buffer}, ds, <<>>,
                [mallocs |-> 1, frees |-> 0, opens |-> 0, closes |-> 0], <<>>, NoCall)
    ELSE Effect(Returned(buffer), <<>>, fsys, hp \cup {buffer}, ds,
                Append(file.data, NUL),
                [mallocs |-> 1, frees |-> 0, opens |-> 0, closes |-> 0], <<>>, NoCall)

read_file(path, fsys, hp, ds, d) ==
    LET file == ifstream(path, fsys, d)
        buffer == malloc(hp)
    IN
    IF ~file.open
    THEN Effect(Returned(0), <<Error(Lit("Failed to open file for reading"))>>,
                fsys, hp, ds, <<>>, NoAcct, <<>>, NoCall)
    ELSE IF buffer = 0
    THEN Effect(Returned(0), <<Error(Lit("Failed to allocate memory"))>>,
                fsys, hp, ds, <<>>, NoAcct, <<>>, NoCall)
    ELSE IF ~file.readok
    THEN Effect(Returned(0), <<Error(Lit("Failed to read file"))>>,
                fsys, free(hp \cup {buffer}, buffer), ds, <<>>,
                [mallocs |-> 1, frees |-> 1, opens |-> 0, closes |-> 0], <<>>, NoCall)
    ELSE Effect(Returned(buffer), <<>>, fsys, hp \cup {buffer}, ds,
                Append(file.data, NUL),
                [mallocs |-> 1, frees |-> 0, opens |-> 0, closes |-> 0], <<>>, NoCall)

file_exists(path, fsys, hp, ds) ==
    Effect(Returned(IF stat_ok(path, fsys) THEN 1 ELSE 0), <<>>,
           fsys, hp, ds, <<>>, NoAcct, <<>>, NoCall)

delete_file(path, fsys, hp, ds) ==
    IF remove_ok(path, fsys)
    THEN Effect(Returned(0), <<Info(Lit("File deleted successfully"))>>,
                Unlink(fsys, path), hp, ds, <<>>, NoAcct, <<>>, NoCall)
    ELSE Effect(Returned(-1), <<Error(Lit("Failed to delete file"))>>,
                fsys, hp, ds, <<>>, NoAcct, <<>>, NoCall)

\* the listing, were the newline put between the names and not after each
RECURSIVE listing_joined(_)
listing_joined(entries) ==
    IF entries = <<>> THEN <<>>
    ELSE IF Len(entries) = 1 THEN Head(entries)
    ELSE Head(entries) \o <<NL>> \o listing_joined(Tail(entries))

\* result += entry->d_name; result += "\n"; over the entries readdir yields
RECURSIVE listing(_)
listing(entries) ==
    IF entries = <<>> THEN <<>>
    ELSE Head(entries) \o <<NL>> \o listing(Tail(entries))

list_directory(path, fsys, hp, ds) ==
    IF ~opendir_ok(path, fsys)
    THEN Effect(Returned(0), <<Error(Lit("Failed to open directory"))>>,
                fsys, hp, ds, <<>>, NoAcct, <<>>, NoCall)
    ELSE LET dir == opendir(ds)
             result == listing(readdir(fsys))
             after == closedir(ds \cup {dir}, dir)
             buffer == malloc(hp)
         IN
         IF buffer = 0
         THEN Effect(Returned(0),
                     <<Error(Lit("Failed to allocate memory for directory listing"))>>,
                     fsys, hp, after, <<>>,
                     [mallocs |-> 0, frees |-> 0, opens |-> 1, closes |-> 1],
                     <<>>, NoCall)
         ELSE Effect(Returned(buffer), <<>>, fsys, hp \cup {buffer}, after,
                     Append(CStr(result), NUL),
                     [mallocs |-> 1, frees |-> 0, opens |-> 1, closes |-> 1],
                     <<>>, NoCall)

\* the host releases a buffer it owns, once
host_free(b, fsys, hp, ds) ==
    Effect(Returned(0), <<>>, fsys, free(hp, b), ds, <<>>, NoAcct, <<>>, NoCall)

----------------------------------------------------------------------------
(* Inputs. *)

File(n, c) == [name |-> n, data |-> c]

\* all strings over chars of length at most n
StrUpTo(chars, n) == UNION {[1..k -> chars] : k \in 0..n}

\* the characters of the argument strings
ArgChars == {"a", SP, TAB, GT, SLASH}

Args == StrUpTo(ArgChars, MaxArgLen)

RegisteredNames == {e.name : e \in command_registry}

\* command tokens that are not registered: the empty token of a leading
\* space, a prefix, an extension, another case, and a name run into its '>'
UnknownNames ==
    {<<>>, <<"l">>, <<"l", "s", "x">>, <<"L", "S">>, <<"e", "c", "h", "o", GT, "a">>}

Line(n, a) == n \o <<SP>> \o a

\* the command lines of the single-call specification
Lines ==
    {Line(n, a) : n \in RegisteredNames \cup UnknownNames, a \in Args}
    \cup RegisteredNames \cup UnknownNames

\* the filesystems a command line can find: no file, one file, or two files
\* in either order
InitNames == {<<"a">>, <<GT>>}
InitData == {<<>>, <<"a", SP>>, <<"a", NUL, "b">>}
InitFS ==
    {<<>>}
    \cup {<<File(n, c)>> : n \in InitNames, c \in InitData}
    \cup {<<File(<<"a">>, <<"a", SP>>), File(<<GT>>, <<>>)>>,
          <<File(<<GT>>, <<"a", NUL, "b">>), File(<<"a">>, <<"a", SP>>)>>}

\* the paths, contents and command lines of the session specification
Paths == {<<>>, <<SLASH>>, <<"a">>, <<SLASH, "a">>, <<NL>>}
Contents == {<<>>, <<"a">>, <<"b", NUL, "a">>}
SessionLines ==
    {Line(n, p) : n \in {<<"l", "s">>, <<"c", "a", "t">>, <<"r", "m">>},
                  p \in Paths \ {<<>>}}
    \cup {<<"l", "s">>, <<"c", "a", "t">>, <<"r", "m">>, <<"e", "c", "h", "o">>, <<"x">>}
    \cup {Line(<<"e", "c", "h", "o">>, a) :
              a \in {<<"a">>, <<"b", SP, GT, SP, "a">>, <<GT, NL>>, <<"a", GT>>}}
SessionFS == {<<>>, <<File(<<"a">>, <<"a", NUL, "b">>)>>}

----------------------------------------------------------------------------
(* The state machine: one action per boundary call. *)

Call(fn, path, data, isnull, addr) ==
    [fn |-> fn, path |-> path, data |-> data, null |-> isnull, addr |-> addr]

Boot == Call("none", <<>>, <<>>, FALSE, 0)

\* the call c ran with effect e, and the host then owns the buffers own
Ran(c, e, own) ==
    /\ fs' = e.fs
    /\ heap' = e.heap
    /\ owned' = own
    /\ dirs' = e.dirs
    /\ call' = c
    /\ ret' = e.ret
    /\ log' = e.log
    /\ invoked' = e.invoked
    /\ hret' = e.hret
    /\ out' = e.out
    /\ acct' = e.acct
    /\ pre' = fs

\* the buffers the host owns once a call has returned the pointer r to it
Received(own, r) == IF r.val # 0 THEN own \cup {r.val} ELSE own

Start(fsys) ==
    /\ fs \in fsys
    /\ heap = {}
    /\ owned = {}
    /\ dirs = {}
    /\ call = Boot
    /\ ret = NoCall
    /\ log = <<>>
    /\ invoked = <<>>
    /\ hret = NoCall
    /\ out = <<>>
    /\ acct = NoAcct
    /\ pre = fs

Execute(lines) ==
    \E line \in lines, d \in DirReads :
        /\ d \in ifstream_outcomes(args_of(line), fs)
        /\ Ran(Call("execute", line, <<>>, FALSE, 0),
               kernel_execute(line, FALSE, fs, heap, dirs, d), owned)

ExecuteNull ==
    Ran(Call("execute", <<>>, <<>>, TRUE, 0),
        kernel_execute(<<>>, TRUE, fs, heap, dirs, "refused"), owned)

WriteFile ==
    \E p \in Paths, c \in Contents :
        Ran(Call("write_file", p, c, FALSE, 0), write_file(p, c, fs, heap, dirs), owned)

ReadFile ==
    \E p \in Paths, d \in DirReads :
        LET e == read_file(p, fs, heap, dirs, d) IN
        /\ d \in ifstream_outcomes(p, fs)
        /\ Ran(Call("read_file", p, <<>>, FALSE, 0), e, Received(owned, e.ret))

FileExists ==
    \E p \in Paths :
        Ran(Call("file_exists", p, <<>>, FALSE, 0), file_exists(p, fs, heap, dirs), owned)

DeleteFile ==
    \E p \in Paths :
        Ran(Call("delete_file", p, <<>>, FALSE, 0), delete_file(p, fs, heap, dirs), owned)

ListDirectory ==
    \E p \in Paths :
        LET e == list_directory(p, fs, heap, dirs) IN
        Ran(Call("list_directory", p, <<>>, FALSE, 0), e, Received(owned, e.ret))

HostFree ==
    \E b \in owned :
        Ran(Call("free", <<>>, <<>>, FALSE, b), host_free(b, fs, heap, dirs), owned \ {b})

\* a session: any sequence of boundary calls
Init == Start(SessionFS)

Next ==
    \/ Execute(SessionLines \cup {<<>>})
    \/ ExecuteNull
    \/ WriteFile
    \/ ReadFile
    \/ FileExists
    \/ DeleteFile
    \/ ListDirectory
    \/ HostFree

Spec == Init /\ [][Next]_vars

\* a single command line, run on each of the filesystems of InitFS
InitShell == Start(InitFS)

NextShell == call = Boot /\ Execute(Lines)

SpecShell == InitShell /\ [][NextShell]_vars

----------------------------------------------------------------------------
(* What the claims speak of, stated apart from the code's own operators.   *)

\* the last call was execute on a non-null, non-empty command line
Executed == call.fn = "execute" /\ ~call.null /\ call.path # <<>>

\* the last call was execute on exactly this line
Ran_line(line) == call.fn = "execute" /\ ~call.null /\ call.path = line

\* the text of a line before its first space, and after it
RECURSIVE Token(_)
Token(line) ==
    IF line = <<>> \/ Head(line) = SP THEN <<>>
    ELSE <<Head(line)>> \o Token(Tail(line))

Remainder(line) ==
    IF Len(Token(line)) = Len(line) THEN <<>>
    ELSE SubSeq(line, Len(Token(line)) + 2, Len(line))

\* the text before the first c, and after it
RECURSIVE Before(_, _)
Before(s, c) ==
    IF s = <<>> \/ Head(s) = c THEN <<>>
    ELSE <<Head(s)>> \o Before(Tail(s), c)

After(s, c) == SubSeq(s, Len(Before(s, c)) + 2, Len(s))

Has(s, c) == \E i \in 1..Len(s) : s[i] = c

Blank(c) == c = SP \/ c = TAB

\* s without its leading spaces and tabs, and without its trailing ones
RECURSIVE LTrim(_)
LTrim(s) == IF s # <<>> /\ Blank(Head(s)) THEN LTrim(Tail(s)) ELSE s

RECURSIVE RTrim(_)
RTrim(s) ==
    IF s # <<>> /\ Blank(s[Len(s)]) THEN RTrim(SubSeq(s, 1, Len(s) - 1)) ELSE s

\* the four commands of the shell
Supported ==
    {<<<<"l", "s">>, "ls">>, <<<<"c", "a", "t">>, "cat">>,
     <<<<"e", "c", "h", "o">>, "echo">>, <<<<"r", "m">>, "rm">>}

SupportedNames == {c[1] : c \in Supported}

\* the files of a directory as a set, and the files other than one name
FilesOf(fsys) == {fsys[i] : i \in 1..Len(fsys)}
Others(fsys, name) == {f \in FilesOf(fsys) : f.name # name}

EchoName == <<"e", "c", "h", "o">>

----------------------------------------------------------------------------
(* Claims about a single command line (SpecShell). *)

\* C1: every non-null, non-empty command line passed to execute ends by
\* returning the status 0 or -1; no exception leaves the dispatcher.
C1_ExecuteReturnsStatus ==
    Executed => ret.tag = "return" /\ ret.val \in {0, 0 - 1}

\* C2: a line whose token before the first space is not exactly ls, cat,
\* echo or rm returns -1, logs the single error "Unknown command", invokes
\* no handler and leaves the filesystem unchanged.
C2_UnknownTokenRejected ==
    (Executed /\ Token(call.path) \notin SupportedNames) =>
        /\ ret = Returned(0 - 1)
        /\ log = <<Error(Lit("Unknown command"))>>
        /\ invoked = <<>>
        /\ fs = pre

C2_Witness ==
    /\ Ran_line(Line(<<"e", "c", "h", "o", GT, "a">>, <<"a", GT, "a">>))
    /\ Len(pre) = 2
    /\ ret = Returned(0 - 1)
    /\ fs = pre

\* C3 (the part on the handler invoked): a line whose token is a supported
\* name invokes that name's handler once, with the whole remainder after the
\* first space as its argument (the empty string when there is no space).
C3_DispatchExact ==
    \A c \in Supported :
        (Executed /\ Token(call.path) = c[1]) =>
            invoked = <<[fn |-> c[2], args |-> Remainder(call.path)]>>

\* C3: a line whose token is a supported name invokes that name's handler
\* once with the remainder as argument, and execute_command returns the
\* status the handler returned.
C3_HandlerStatusReturned ==
    /\ C3_DispatchExact
    /\ (Executed /\ Token(call.path) \in SupportedNames) =>
           ret.tag = "return" /\ hret.tag = "return" /\ ret = hret

\* C4: an echo argument with a '>' whose target can be opened returns 0 and
\* leaves the target (the text after the first '>', left-trimmed) holding
\* exactly the text before the first '>', right-trimmed; no other file is
\* created or changed and nothing is logged.
C4_EchoRedirect ==
    LET a == Remainder(call.path)
        target == LTrim(After(a, GT))
        text == RTrim(Before(a, GT))
        n == Resolve(target, pre).name
    IN
    (Executed /\ Token(call.path) = EchoName /\ Has(a, GT) /\ ofstream_open(target, pre)) =>
        /\ ret = Returned(0)
        /\ log = <<>>
        /\ HasFile(fs, n) /\ FileData(fs, n) = text
        /\ Others(fs, n) = Others(pre, n)
        /\ Len(fs) = Len(pre) + (IF HasFile(pre, n) THEN 0 ELSE 1)

C4_Witness ==
    /\ Ran_line(Line(EchoName, <<"a", SP, GT, "a">>))
    /\ pre = <<File(<<GT>>, <<"a", NUL, "b">>), File(<<"a">>, <<"a", SP>>)>>
    /\ fs = <<File(<<GT>>, <<"a", NUL, "b">>), File(<<"a">>, <<"a">>)>>
    /\ ret = Returned(0)

\* C5: an echo argument without '>' (the bare line "echo" included) is
\* logged as one info message, returns 0 and leaves the filesystem unchanged.
C5_EchoPlain ==
    (Executed /\ Token(call.path) = EchoName /\ ~Has(Remainder(call.path), GT)) =>
        /\ ret = Returned(0)
        /\ log = <<Info(Remainder(call.path))>>
        /\ fs = pre

C5_Witness ==
    /\ Ran_line(Line(EchoName, <<SP, "a", TAB>>))
    /\ log = <<Info(<<SP, "a", TAB>>)>>
    /\ Len(pre) = 2
    /\ fs = pre

----------------------------------------------------------------------------
(* Claims about sessions of boundary calls (Spec). *)

\* the bytes of a buffer before its first null
RECURSIVE UpToNul(_)
UpToNul(s) ==
    IF s = <<>> \/ Head(s) = NUL THEN <<>>
    ELSE <<Head(s)>> \o UpToNul(Tail(s))

\* how many times c occurs in s
RECURSIVE Count(_, _)
Count(s, c) ==
    IF s = <<>> THEN 0
    ELSE (IF Head(s) = c THEN 1 ELSE 0) + Count(Tail(s), c)

\* the entry names of the root in iteration order: ".", "..", then the files
EntryNames(fsys) == <<<<DOT>>, <<DOT, DOT>>>> \o [i \in 1..Len(fsys) |-> fsys[i].name]

\* each name followed by one newline, concatenated
RECURSIVE EachWithNewline(_)
EachWithNewline(names) ==
    IF names = <<>> THEN <<>>
    ELSE Append(Head(names), NL) \o EachWithNewline(Tail(names))

\* the newlines that occur inside the names
RECURSIVE NewlinesIn(_)
NewlinesIn(names) ==
    IF names = <<>> THEN 0
    ELSE Count(Head(names), NL) + NewlinesIn(Tail(names))

\* file_exists(p) would return 1 on the filesystem fsys
Exists(p, fsys) == file_exists(p, fsys, {}, {}).ret = Returned(1)

RmName == <<"r", "m">>
CatName == <<"c", "a", "t">>

\* the call c is an execute of a line with this command name
Shell(c, name) == c.fn = "execute" /\ ~c.null /\ Token(c.path) = name

\* the call c deletes path p: delete_file(p) or the line rm p
DeleteOf(c, p) ==
    \/ c.fn = "delete_file" /\ c.path = p
    \/ Shell(c, RmName) /\ Remainder(c.path) = p

\* the call c writes path p: write_file(p, _) or the line echo ... > p
WriteTo(c, p) ==
    \/ c.fn = "write_file" /\ c.path = p
    \/ /\ Shell(c, EchoName)
       /\ Has(Remainder(c.path), GT)
       /\ LTrim(After(Remainder(c.path), GT)) = p

\* C6, as claimed: a read_file(p) that immediately follows a write_file(p, c)
\* that returned 0 returns a non-null buffer whose bytes up to the null are
\* c up to its first null, which is also what the file holds.
C6_RoundTrip ==
    [][(call.fn = "write_file" /\ ret = Returned(0)
        /\ call'.fn = "read_file" /\ call'.path = call.path) =>
           /\ FileData(fs, Resolve(call.path, fs).name) = UpToNul(call.data)
           /\ ret'.val # 0
           /\ UpToNul(out') = UpToNul(call.data)]_vars

\* C6, amended: the same, unless the allocation of the buffer fails; then
\* read_file logs "Failed to allocate memory" and returns null.
C6_RoundTripUnlessAllocFails ==
    [][(call.fn = "write_file" /\ ret = Returned(0)
        /\ call'.fn = "read_file" /\ call'.path = call.path) =>
           /\ FileData(fs, Resolve(call.path, fs).name) = UpToNul(call.data)
           /\ \/ /\ Cardinality(heap) = MaxBuffers
                 /\ ret'.val = 0
                 /\ log' = <<Error(Lit("Failed to allocate memory"))>>
              \/ /\ Cardinality(heap) < MaxBuffers
                 /\ ret'.val # 0
                 /\ UpToNul(out') = UpToNul(call.data)]_vars

C6_Witness ==
    /\ call.fn = "read_file"
    /\ call.path = <<SLASH, "a">>
    /\ ret.val # 0
    /\ out = <<"b", NUL>>
    /\ fs = <<File(<<"a">>, <<"b">>)>>

\* C7: once a delete of p has returned 0, file_exists(p) returns 0 and every
\* rm p or delete_file(p) returns -1 and changes nothing, until a write that
\* returns 0 creates p again, after which file_exists(p) returns 1; rm with
\* an empty argument returns -1 and deletes nothing.
C7_DeleteThenAbsent ==
    [][\A p \in Paths :
          /\ (DeleteOf(call', p) /\ ret' = Returned(0)) =>
                 Exists(p, fs) /\ ~Exists(p, fs')
          /\ (~Exists(p, fs) /\ DeleteOf(call', p)) =>
                 ret' = Returned(0 - 1) /\ fs' = fs
          /\ (~Exists(p, fs) /\ Exists(p, fs')) =>
                 ret' = Returned(0) /\ \E q \in Paths : WriteTo(call', q)
          /\ (WriteTo(call', p) /\ ret' = Returned(0)) => Exists(p, fs')
          /\ (Shell(call', RmName) /\ Remainder(call'.path) = <<>>) =>
                 ret' = Returned(0 - 1) /\ fs' = fs]_vars

C7_Witness ==
    /\ Ran_line(Line(RmName, <<SLASH, "a">>))
    /\ ret = Returned(0)
    /\ HasFile(pre, <<"a">>)
    /\ ~Exists(<<"a">>, fs)
    /\ Len(fs) = 1

\* C8: cat p of an existing regular file whose content c has no null byte
\* returns 0 and logs exactly c as one info message, so cat p after a
\* successful echo t > p logs the trimmed text; cat of the empty argument or
\* of a path that cannot be opened returns -1 with an error log; cat leaves
\* the filesystem unchanged.
C8_Cat ==
    [][Shell(call', CatName) =>
          LET p == Remainder(call'.path)
              r == Resolve(p, fs)
              a == Remainder(call.path)
          IN
          /\ fs' = fs
          /\ (r.kind = "file" /\ ~Has(FileData(fs, r.name), NUL)) =>
                 ret' = Returned(0) /\ log' = <<Info(FileData(fs, r.name))>>
          /\ (p = <<>> \/ r.kind \in {"none", "bad"}) =>
                 /\ ret' = Returned(0 - 1)
                 /\ Len(log') = 1 /\ log'[1].level = "error"
          /\ (WriteTo(call, p) /\ Shell(call, EchoName) /\ ret = Returned(0)) =>
                 ret' = Returned(0) /\ log' = <<Info(RTrim(Before(a, GT)))>>]_vars

C8_Witness ==
    /\ Ran_line(Line(CatName, <<NL>>))
    /\ ret = Returned(0)
    /\ log = <<Info(<<>>)>>
    /\ Len(fs) = 2

\* what C9 says of a list_directory call but for the count of newlines
ListsEntries ==
    call'.fn = "list_directory" =>
        /\ ret'.val = 0 <=>
               (Resolve(call'.path, fs).kind # "dir" \/ Cardinality(heap) = MaxBuffers)
        /\ ret'.val # 0 =>
               /\ UpToNul(out') = EachWithNewline(EntryNames(fs))
               /\ fs = <<>> => UpToNul(out') = <<DOT, NL, DOT, DOT, NL>>
        /\ fs' = fs

\* C9, as claimed: list_directory returns null exactly when the directory
\* cannot be opened or the allocation fails; otherwise the buffer is every
\* entry name ("." and ".." included) in iteration order, each followed by a
\* newline, so its newlines are as many as the entries; the filesystem is
\* unchanged.
C9_Listing ==
    [][/\ ListsEntries
       /\ (call'.fn = "list_directory" /\ ret'.val # 0) =>
              Count(UpToNul(out'), NL) = Len(fs) + 2]_vars

\* C9, amended: the same, but the newlines of the buffer are as many as the
\* entries plus the newlines that occur inside the entry names.
C9_ListingNewlinesInNames ==
    [][/\ ListsEntries
       /\ (call'.fn = "list_directory" /\ ret'.val # 0) =>
              Count(UpToNul(out'), NL) = Len(fs) + 2 + NewlinesIn(EntryNames(fs))]_vars

C9_Witness ==
    /\ call.fn = "list_directory"
    /\ ret.val # 0
    /\ [i \in 1..Len(fs) |-> fs[i].name] = <<<<NL>>, <<"a">>>>
    /\ Count(UpToNul(out), NL) = 5

\* C10: a buffer read_file or list_directory allocates is returned still
\* allocated, or freed once before a null return; every directory handle
\* list_directory or ls opens is closed once before the return.  So the live
\* blocks are the buffers returned and not yet released by the host, and no
\* directory handle stays open.
C10_Ownership ==
    /\ heap = owned
    /\ dirs = {}
    /\ call.fn \in {"read_file", "list_directory"} =>
           IF ret.val # 0
           THEN ret.val \in heap /\ acct.mallocs = 1 /\ acct.frees = 0
           ELSE acct.mallocs = acct.frees
    /\ (call.fn = "list_directory" \/ Shell(call, <<"l", "s">>)) =>
           acct.opens = acct.closes /\ acct.opens <= 1

C10_Witness ==
    /\ call.fn = "read_file"
    /\ ret.val = 0
    /\ acct.mallocs = 1
    /\ acct.frees = 1
    /\ heap = {}

====
